---------------------------- MODULE Spec2Model ----------------------------
(***************************************************************************)
(* The CORS / OAuth relay (a Hono worker).  Three variants of the program  *)
(* exist in the repository:                                                *)
(*   "earliest"  src/unnamed/part_000, lines 232-361 (no credentials)      *)
(*   "secrets"   src/src/index.ts (credential injection, console logging)  *)
(*   "latest"    src/unnamed/part_000, lines 1-231 (logger, text-first     *)
(*               handling of the upstream body in /apis)                   *)
(* Strings are TLA+ strings handled character by character (Len, SubSeq,   *)
(* \o).  A handler that awaits fetch() is two steps: the part before the   *)
(* await and the part after it.                                            *)
(***************************************************************************)
EXTENDS Integers, Sequences, FiniteSets, TLC

VARIABLES variant, env, pc, req, fetches, upstream, resp, logs

vars == <<variant, env, pc, req, fetches, upstream, resp, logs>>

-----------------------------------------------------------------------------
(* Bounds of the model *)

\* concurrent requests in ConcSpec
NumReq == 2
\* form fields per request body in Spec
MaxFields == 2
\* characters by which the long upstream bodies exceed the excerpt cap
Overrun == 100

-----------------------------------------------------------------------------
(* JavaScript values and string methods *)

\* undefined / null: a missing query parameter or header
Undefined == "<undefined>"

Variants == {"earliest", "secrets", "latest"}

Min(a, b) == IF a < b THEN a ELSE b

\* String.prototype.startsWith
StartsWith(s, p) == Len(s) >= Len(p) /\ SubSeq(s, 1, Len(p)) = p

\* String.prototype.endsWith
EndsWith(s, p) == Len(s) >= Len(p) /\ SubSeq(s, Len(s) - Len(p) + 1, Len(s)) = p

\* String.prototype.includes
Includes(s, p) ==
    \E i \in 1..(Len(s) - Len(p) + 1) : SubSeq(s, i, i + Len(p) - 1) = p

WholeString(s, n) == s

\* String.prototype.substring(0, n)
Substring(s, n) == SubSeq(s, 1, Min(n, Len(s)))

\* Array.prototype.includes over a tuple of strings
ArrayIncludes(arr, x) == \E i \in 1..Len(arr) : arr[i] = x

\* s repeated n times
RECURSIVE Rep(_, _)
Rep(s, n) ==
    IF n = 0 THEN ""
    ELSE IF n % 2 = 0 THEN LET h == Rep(s, n \div 2) IN h \o h
    ELSE s \o Rep(s, n - 1)

\* position of the first occurrence of the one-character string ch at or
\* after position i, or 0
RECURSIVE IndexFrom(_, _, _)
IndexFrom(s, ch, i) ==
    IF i > Len(s) THEN 0
    ELSE IF SubSeq(s, i, i) = ch THEN i
    ELSE IndexFrom(s, ch, i + 1)

-----------------------------------------------------------------------------
(* Allow-lists *)

GITHUB_TOKEN_URL == "https://github.com/login/oauth/access_token"
GITLAB_TOKEN_URL == "https://gitlab.com/oauth/token"
BITBUCKET_TOKEN_URL == "https://bitbucket.org/site/oauth2/access_token"

ALLOWED_OAUTH_ENDPOINTS ==
    << GITHUB_TOKEN_URL, GITLAB_TOKEN_URL, BITBUCKET_TOKEN_URL >>

ALLOWED_API_ENDPOINTS ==
    << "https://api.github.com/user",
       "https://api.github.com/user/repos",
       "https://gitlab.com/api/v4/user",
       "https://gitlab.com/api/v4/projects",
       "https://api.bitbucket.org/2.0/user",
       "https://api.bitbucket.org/2.0/repositories" >>

-----------------------------------------------------------------------------
(* CORS gate *)

FALLBACK_ORIGIN == "https://g.abhi.now"

CorsOriginIncludes(origin) ==
    IF \/ Includes(origin, ".abhi.now")
       \/ origin = "https://abhi.now"
       \/ StartsWith(origin, "http://localhost:")
    THEN origin
    ELSE FALLBACK_ORIGIN

\* cors({ origin: (origin) => ... })
CorsOrigin(origin) ==
    IF \/ EndsWith(origin, ".abhi.now")
       \/ origin = "https://abhi.now"
       \/ StartsWith(origin, "http://localhost:")
    THEN origin
    ELSE FALLBACK_ORIGIN

-----------------------------------------------------------------------------
(* URLSearchParams: the application/x-www-form-urlencoded parser and        *)
(* serializer, on the characters the request bodies of the model use        *)

DecodeTable ==
    ("%20" :> " ") @@ ("%26" :> "&") @@ ("%3D" :> "=") @@ ("%3d" :> "=") @@
    ("%2B" :> "+") @@ ("%3F" :> "?") @@ ("%25" :> "%") @@ ("%2F" :> "/") @@
    ("%3A" :> ":")

EncodeTable ==
    (" " :> "+") @@ ("&" :> "%26") @@ ("=" :> "%3D") @@ ("+" :> "%2B") @@
    ("?" :> "%3F") @@ ("%" :> "%25") @@ ("/" :> "%2F") @@ (":" :> "%3A")

\* "+" becomes a space, then percent-decoding; a "%" that starts no escape
\* is kept
RECURSIVE Decode(_, _)
Decode(s, i) ==
    IF i > Len(s) THEN ""
    ELSE LET c == SubSeq(s, i, i) IN
         IF c = "+" THEN " " \o Decode(s, i + 1)
         ELSE IF c = "%" /\ i + 2 <= Len(s)
                 /\ SubSeq(s, i, i + 2) \in DOMAIN DecodeTable
              THEN DecodeTable[SubSeq(s, i, i + 2)] \o Decode(s, i + 3)
         ELSE c \o Decode(s, i + 1)

\* the urlencoded serializer: letters, digits and * - . _ are kept
RECURSIVE Encode(_, _)
Encode(s, i) ==
    IF i > Len(s) THEN ""
    ELSE LET c == SubSeq(s, i, i) IN
         (IF c \in DOMAIN EncodeTable THEN EncodeTable[c] ELSE c)
             \o Encode(s, i + 1)

\* String.prototype.split on a one-character separator
RECURSIVE Split(_, _)
Split(s, sep) ==
    LET k == IndexFrom(s, sep, 1) IN
    IF k = 0 THEN <<s>>
    ELSE <<SubSeq(s, 1, k - 1)>> \o Split(SubSeq(s, k + 1, Len(s)), sep)

\* one name=value piece: split at the first "=", decode both sides
ParsePiece(p) ==
    LET k == IndexFrom(p, "=", 1) IN
    [ name  |-> Decode(IF k = 0 THEN p ELSE SubSeq(p, 1, k - 1), 1),
      value |-> Decode(IF k = 0 THEN "" ELSE SubSeq(p, k + 1, Len(p)), 1) ]

\* the urlencoded parser: pieces between "&", empty pieces skipped
FormParse(s) ==
    LET pieces == SelectSeq(Split(s, "&"), LAMBDA p : p # "")
    IN [i \in 1..Len(pieces) |-> ParsePiece(pieces[i])]

\* new URLSearchParams(init): one leading "?" is dropped
URLSearchParams(init) ==
    FormParse(IF StartsWith(init, "?") THEN SubSeq(init, 2, Len(init)) ELSE init)

ParamsAppend(params, name, value) ==
    Append(params, [name |-> name, value |-> value])

\* URLSearchParams.set: the first pair of that name takes the value, the
\* other pairs of that name are removed; appended when there is none
ParamsSet(params, name, value) ==
    LET idx == {i \in 1..Len(params) : params[i].name = name} IN
    IF idx = {} THEN Append(params, [name |-> name, value |-> value])
    ELSE LET first == CHOOSE i \in idx : \A j \in idx : i <= j
             marked == [i \in 1..Len(params) |->
                          [ pair |-> IF i = first
                                     THEN [name |-> name, value |-> value]
                                     ELSE params[i],
                            keep |-> (i = first \/ params[i].name # name) ]]
             kept == SelectSeq(marked, LAMBDA m : m.keep)
         IN [i \in 1..Len(kept) |-> kept[i].pair]

\* URLSearchParams.toString
RECURSIVE ParamsToString(_)
ParamsToString(params) ==
    IF params = <<>> THEN ""
    ELSE LET h == Encode(params[1].name, 1) \o "=" \o Encode(params[1].value, 1)
         IN IF Len(params) = 1 THEN h
            ELSE h \o "&" \o ParamsToString(Tail(params))

-----------------------------------------------------------------------------
(* JSON values.  A value is [kind, fields, canon]: its top-level string     *)
(* fields and its JSON.stringify text.  An object the handler builds has    *)
(* no canon of interest; a number field is written in decimal.              *)

NoFields == [k \in {} |-> ""]

Obj(fields) == [kind |-> "object", fields |-> fields, canon |-> ""]

\* the excerpt lengths of the latest /apis handler
LOG_EXCERPT == 200
DETAILS_EXCERPT == 500

T_USER == "{\"login\":\"octocat\"}"
T_NOT_FOUND == "{\"message\":\"Not Found\"}"
T_EMPTY_MESSAGE == "{\"message\":\"\"}"
T_OAUTH_ERROR == "{ \"error\": \"bad_verification_code\" }"
T_NULL == "null"
T_LONG_JSON == "{\"message\":\"" \o Rep("m", DETAILS_EXCERPT + Overrun) \o "\"}"
T_HTML == "<html>" \o Rep("x", DETAILS_EXCERPT + Overrun) \o "</html>"
T_PLAIN == "Not Found"

\* the documents JSON.parse accepts, with the value of each
JsonDocs ==
    (T_USER :> [kind |-> "object", fields |-> [login |-> "octocat"],
                canon |-> T_USER]) @@
    (T_NOT_FOUND :> [kind |-> "object", fields |-> [message |-> "Not Found"],
                     canon |-> T_NOT_FOUND]) @@
    (T_EMPTY_MESSAGE :> [kind |-> "object", fields |-> [message |-> ""],
                         canon |-> T_EMPTY_MESSAGE]) @@
    (T_OAUTH_ERROR :> [kind |-> "object",
                       fields |-> [error |-> "bad_verification_code"],
                       canon |-> "{\"error\":\"bad_verification_code\"}"]) @@
    (T_NULL :> [kind |-> "null", fields |-> NoFields, canon |-> T_NULL]) @@
    (T_LONG_JSON :> [kind |-> "object",
                     fields |-> [message |-> Rep("m", DETAILS_EXCERPT + Overrun)],
                     canon |-> T_LONG_JSON])

\* JSON.parse / response.json(): the value, or a thrown SyntaxError
JSONParse(text) ==
    IF text \in DOMAIN JsonDocs
    THEN [ok |-> TRUE, value |-> JsonDocs[text]]
    ELSE [ok |-> FALSE, value |-> Obj(NoFields)]

\* JSON.stringify of a parsed value
Stringify(data) == data.canon

\* data.<name> read as a condition: present and not the empty string
Truthy(data, name) ==
    name \in DOMAIN data.fields /\ data.fields[name] # ""

\* messages of the exceptions the handlers catch
FETCH_ERROR == "Network connection lost."
SYNTAX_ERROR == "Unexpected token in JSON"
TYPE_ERROR == "Cannot read properties of null"

\* Response.ok
Ok(status) == 200 <= status /\ status <= 299

-----------------------------------------------------------------------------
(* Configuration (Bindings) *)

NoEnv ==
    [ GITHUB_CLIENT_ID |-> Undefined, GITHUB_CLIENT_SECRET |-> Undefined,
      GITLAB_CLIENT_ID |-> Undefined, GITLAB_CLIENT_SECRET |-> Undefined ]

\* every configuration of the model
AllEnvs ==
    [ GITHUB_CLIENT_ID : {"Iv1.github_app", "Iv1.other_app"},
      GITHUB_CLIENT_SECRET : {"ghsecret_A", "ghsecret_B"},
      GITLAB_CLIENT_ID : {"gitlab_app"},
      GITLAB_CLIENT_SECRET : {"glsecret_A", "glsecret_B"} ]

\* the configurations a run is deployed with
Envs ==
    { e \in AllEnvs :
        /\ e.GITHUB_CLIENT_ID = "Iv1.github_app"
        /\ (e.GITHUB_CLIENT_SECRET = "ghsecret_A") = (e.GITLAB_CLIENT_SECRET = "glsecret_A") }

\* the secrets a deployment of variant v holds
Secrets(v, e) ==
    IF v = "earliest" THEN {}
    ELSE {e.GITHUB_CLIENT_SECRET, e.GITLAB_CLIENT_SECRET}

-----------------------------------------------------------------------------
(* Logging *)

\* A log line is the stream and the arguments of one console call.  The
\* secrets variant calls console.log / console.error (its messages open with
\* an emoji, left out here); the latest variant calls logger.info /
\* logger.error, which put "INFO |" / "ERROR |" first; the earliest variant
\* logs nothing.  An object argument is written as its JSON text, an Error
\* as its message; Undefined stands for no further argument.
LogLine(v, level, msg, arg) ==
    IF v = "earliest" THEN <<>>
    ELSE << [ stream |-> IF level = "info" THEN "log" ELSE "error",
              args |-> (IF v = "latest"
                        THEN (IF level = "info" THEN <<"INFO |">> ELSE <<"ERROR |">>)
                        ELSE <<>>)
                       \o <<msg>>
                       \o (IF arg = Undefined THEN <<>> ELSE <<arg>>) ] >>

-----------------------------------------------------------------------------
(* GET /config and GET / *)

ConfigPayloadWithSecret(v, e) ==
    IF v = "earliest" THEN [status |-> 404, payload |-> Obj(NoFields)]
    ELSE [ status |-> 200,
           payload |-> Obj(("github.clientId" :> e.GITHUB_CLIENT_ID) @@
                           ("github.clientSecret" :> e.GITHUB_CLIENT_SECRET) @@
                           ("gitlab.clientId" :> e.GITLAB_CLIENT_ID)) ]

\* app.get("/config"); the earliest variant has no such route (404)
ConfigPayload(v, e) ==
    IF v = "earliest" THEN [status |-> 404, payload |-> Obj(NoFields)]
    ELSE [ status |-> 200,
           payload |-> Obj(("github.clientId" :> e.GITHUB_CLIENT_ID) @@
                           ("gitlab.clientId" :> e.GITLAB_CLIENT_ID)) ]

\* app.get("/")
HealthPayload(v) ==
    IF v = "earliest"
    THEN Obj(("status" :> "ok") @@
             ("endpoints.oauth" :> "POST /oauth-proxy?url=<encoded-oauth-endpoint>") @@
             ("endpoints.api" :> "GET /api-proxy?url=<encoded-api-endpoint>"))
    ELSE Obj(("status" :> "ok") @@
             ("endpoints.config" :> "GET /config") @@
             ("endpoints.oauth" :> "POST /oauth?url=<encoded-oauth-endpoint>") @@
             ("endpoints.api" :> "GET /apis?url=<encoded-api-endpoint>"))

-----------------------------------------------------------------------------
(* POST /oauth *)

OAuthAllowedByPrefix(targetUrl) ==
    /\ targetUrl # Undefined
    /\ targetUrl # ""
    /\ \E i \in 1..Len(ALLOWED_OAUTH_ENDPOINTS) :
          StartsWith(targetUrl, ALLOWED_OAUTH_ENDPOINTS[i])

\* targetUrl && ALLOWED_OAUTH_ENDPOINTS.includes(targetUrl)
OAuthAllowed(targetUrl) ==
    /\ targetUrl # Undefined
    /\ targetUrl # ""
    /\ ArrayIncludes(ALLOWED_OAUTH_ENDPOINTS, targetUrl)

ProviderOfGit(targetUrl) ==
    IF Includes(targetUrl, "git") THEN "github"
    ELSE IF Includes(targetUrl, "gitlab.com") THEN "gitlab"
    ELSE "none"

\* the provider whose credentials are injected
ProviderOf(targetUrl) ==
    IF Includes(targetUrl, "github.com") THEN "github"
    ELSE IF Includes(targetUrl, "gitlab.com") THEN "gitlab"
    ELSE "none"

\* the body sent upstream: as received in the earliest variant, otherwise
\* the parsed form with the provider's client_id and client_secret set
OAuthForwardBody(v, e, targetUrl, body) ==
    IF v = "earliest" THEN body
    ELSE LET params == URLSearchParams(body)
             provider == ProviderOf(targetUrl)
             injected ==
                 CASE provider = "github" ->
                        ParamsSet(ParamsSet(params, "client_id", e.GITHUB_CLIENT_ID),
                                  "client_secret", e.GITHUB_CLIENT_SECRET)
                   [] provider = "gitlab" ->
                        ParamsSet(ParamsSet(params, "client_id", e.GITLAB_CLIENT_ID),
                                  "client_secret", e.GITLAB_CLIENT_SECRET)
                   [] OTHER -> params
         IN ParamsToString(injected)

OAuthPrepareLoggingBody(v, e, targetUrl, body) ==
    LET sent == OAuthForwardBody(v, e, targetUrl, body) IN
    [ fetch |-> [ url |-> targetUrl, method |-> "POST",
                  headers |-> ("Content-Type" :> "application/x-www-form-urlencoded")
                              @@ ("Accept" :> "application/json"),
                  body |-> sent ],
      logs |-> LogLine(v, "info", "Token exchange for:", targetUrl \o " " \o sent) ]

\* the handler from the try to the fetch call: the outbound request and the
\* line logged before it
OAuthPrepare(v, e, targetUrl, body) ==
    [ fetch |-> [ url |-> targetUrl, method |-> "POST",
                  headers |-> ("Content-Type" :> "application/x-www-form-urlencoded")
                              @@ ("Accept" :> "application/json"),
                  body |-> OAuthForwardBody(v, e, targetUrl, body) ],
      logs |-> LogLine(v, "info", "Token exchange for:", targetUrl) ]

\* the catch block of /oauth
OAuthCatch(v, message) ==
    [ status |-> 500,
      payload |-> Obj([error |-> "Proxy request failed", details |-> message]),
      logs |-> LogLine(v, "error", "Proxy error:", message) ]

\* the handler after the fetch call: response.json(), the log line, the relay
OAuthComplete(v, outcome) ==
    IF outcome.threw THEN OAuthCatch(v, FETCH_ERROR)
    ELSE LET parsed == JSONParse(outcome.text)
             data == parsed.value
         IN IF ~parsed.ok THEN OAuthCatch(v, SYNTAX_ERROR)
            ELSE IF v = "earliest"
                 THEN [status |-> outcome.status, payload |-> data, logs |-> <<>>]
            ELSE IF ~Ok(outcome.status)
                 THEN [ status |-> outcome.status, payload |-> data,
                        logs |-> LogLine(v, "error", "Token exchange failed:",
                                         Stringify(data)) ]
            ELSE IF data.kind = "null" THEN OAuthCatch(v, TYPE_ERROR)
            ELSE IF Truthy(data, "error")
                 THEN [ status |-> outcome.status, payload |-> data,
                        logs |-> LogLine(v, "error", "Token exchange failed:",
                                         Stringify(data)) ]
            ELSE [ status |-> outcome.status, payload |-> data,
                   logs |-> LogLine(v, "info", "Token exchange successful", Undefined) ]

-----------------------------------------------------------------------------
(* GET /apis *)

ApisAllowedByIncludes(targetUrl) ==
    \E i \in 1..Len(ALLOWED_API_ENDPOINTS) :
        Includes(targetUrl, ALLOWED_API_ENDPOINTS[i])

\* ALLOWED_API_ENDPOINTS.some((endpoint) => targetUrl.startsWith(endpoint))
ApisAllowed(targetUrl) ==
    \E i \in 1..Len(ALLOWED_API_ENDPOINTS) :
        StartsWith(targetUrl, ALLOWED_API_ENDPOINTS[i])

\* the outbound request of /apis
ApisPrepare(v, targetUrl, authHeader) ==
    [ url |-> targetUrl, method |-> "GET",
      headers |-> ("Accept" :> "application/json")
                  @@ (IF v = "latest"
                      THEN ("User-Agent" :> "GitDigest-App/1.0") ELSE NoFields)
                  @@ (IF authHeader # Undefined /\ authHeader # ""
                      THEN ("Authorization" :> authHeader) ELSE NoFields),
      body |-> Undefined ]

\* the outer catch block of /apis
ApisCatch(v, message) ==
    [ status |-> 500,
      payload |-> Obj([error |-> "API request failed", details |-> message]),
      logs |-> IF v = "latest" THEN LogLine(v, "error", "Error:", message)
               ELSE <<>> ]

ApisErrorDetailsStringified(data) == Stringify(data)

\* data.message || JSON.stringify(data)
ApisErrorDetails(data) ==
    IF Truthy(data, "message") THEN data.fields["message"] ELSE Stringify(data)

\* the latest handler after the fetch call: text first, then the content
\* type, JSON.parse, the upstream status
ApisCompleteLatest(v, outcome) ==
    LET text == outcome.text
        first == LogLine(v, "info", "Response (first 200 chars):",
                         Substring(text, LOG_EXCERPT))
        contentType == outcome.contentType
        parsed == JSONParse(text)
        data == parsed.value
    IN IF contentType = Undefined \/ ~Includes(contentType, "application/json")
       THEN [ status |-> 500,
              payload |-> Obj([ error |-> "Invalid response type",
                                details |-> Substring(text, DETAILS_EXCERPT),
                                status |-> ToString(outcome.status) ]),
              logs |-> first \o LogLine(v, "error", "Non-JSON response", Undefined) ]
       ELSE IF ~parsed.ok
       THEN [ status |-> 500,
              payload |-> Obj([ error |-> "Failed to parse JSON",
                                details |-> Substring(text, DETAILS_EXCERPT) ]),
              logs |-> first \o LogLine(v, "error", "JSON parse failed", Undefined) ]
       ELSE IF ~Ok(outcome.status)
       THEN LET logged == first \o LogLine(v, "error", "API error:", Stringify(data))
            IN IF data.kind = "null"
               THEN LET c == ApisCatch(v, TYPE_ERROR)
                    IN [c EXCEPT !.logs = logged \o c.logs]
               ELSE [ status |-> outcome.status,
                      payload |-> Obj([ error |-> "API request failed",
                                        details |-> ApisErrorDetails(data),
                                        status |-> ToString(outcome.status) ]),
                      logs |-> logged ]
       ELSE [ status |-> outcome.status, payload |-> data,
              logs |-> first \o LogLine(v, "info", "API success", Undefined) ]

\* the handler after the fetch call
ApisComplete(v, outcome) ==
    IF outcome.threw THEN ApisCatch(v, FETCH_ERROR)
    ELSE IF v = "latest" THEN ApisCompleteLatest(v, outcome)
    ELSE LET parsed == JSONParse(outcome.text)
         IN IF ~parsed.ok THEN ApisCatch(v, SYNTAX_ERROR)
            ELSE [status |-> outcome.status, payload |-> parsed.value, logs |-> <<>>]

-----------------------------------------------------------------------------
(* Inputs: what a caller sends and what an upstream answers *)

OriginSamples ==
    { "", "https://app.abhi.now", "https://abhi.now", "https://g.abhi.now",
      "http://localhost:5173", "https://evil.example",
      "https://abhi.now.evil.example", "https://x.abhi.now.evil.example",
      "http://abhi.now", "https://localhost:5173", "http://localhost",
      "https://evilabhi.now", "http://evil.abhi.now", ".abhi.now" }

RequestOrigins == {"https://app.abhi.now", "https://evil.example"}

OAuthUrlSamples ==
    { Undefined, "", GITHUB_TOKEN_URL, GITLAB_TOKEN_URL, BITBUCKET_TOKEN_URL,
      GITHUB_TOKEN_URL \o "/", GITHUB_TOKEN_URL \o "?x=1",
      "https://github.com/login/oauth/access_toke",
      "https://github.com.evil.example/login/oauth/access_token",
      "https://GitHub.com/login/oauth/access_token",
      "https://evil.example/?u=" \o GITLAB_TOKEN_URL,
      "https://api.github.com/user" }

ApiUrlSamples ==
    { Undefined, "", "https://api.github.com/user",
      "https://api.github.com/user/repos?per_page=100",
      "https://api.github.com/users/octocat",
      "https://gitlab.com/api/v4/projects",
      "https://api.bitbucket.org/2.0/repositories/x",
      "https://api.github.com/use", "https://api.github.com/orgs",
      "https://evil.example/?u=https://api.github.com/user",
      "http://api.github.com/user", GITHUB_TOKEN_URL }

AuthSamples == {Undefined, "", "Bearer gho_callertoken"}

FieldPool ==
    { "client_id=evil", "client_secret=evil%26x", "a+b=c%3dd", "?x=1", "" }

\* the bodies of exactly n fields from the pool, joined by "&"
RECURSIVE Joined(_)
Joined(n) ==
    IF n = 0 THEN {""}
    ELSE IF n = 1 THEN FieldPool
    ELSE {b \o "&" \o f : b \in Joined(n - 1), f \in FieldPool}

Bodies == UNION {Joined(n) : n \in 0..MaxFields}

Statuses == {200, 404}

ContentTypes == {Undefined, "application/json; charset=utf-8", "text/html"}

Texts ==
    { T_USER, T_NOT_FOUND, T_EMPTY_MESSAGE, T_OAUTH_ERROR, T_NULL, T_LONG_JSON,
      T_HTML, T_PLAIN }

\* fetch throws
Thrown == [threw |-> TRUE, status |-> 0, contentType |-> Undefined, text |-> ""]

Outcomes ==
    {Thrown} \cup
    [threw : {FALSE}, status : Statuses, contentType : ContentTypes, text : Texts]

\* the inputs of the concurrent specification
ConcOAuthUrls == {GITHUB_TOKEN_URL, "https://evil.example/token"}
ConcApiUrls == {"https://api.github.com/user", Undefined}
ConcOutcomes ==
    { Thrown,
      [threw |-> FALSE, status |-> 200,
       contentType |-> "application/json; charset=utf-8", text |-> T_USER],
      [threw |-> FALSE, status |-> 404,
       contentType |-> "application/json; charset=utf-8", text |-> T_NOT_FOUND],
      [threw |-> FALSE, status |-> 404, contentType |-> "text/html",
       text |-> T_HTML] }

-----------------------------------------------------------------------------
(* The requests *)

NoReq ==
    [ route |-> "none", origin |-> "", url |-> Undefined, body |-> "",
      auth |-> Undefined ]

Empty == [kind |-> "empty", fields |-> NoFields, canon |-> ""]

\* no fetch has settled
Pending ==
    [threw |-> FALSE, status |-> 0, contentType |-> Undefined, text |-> "<pending>"]

\* c.json(payload, status) behind the CORS gate
Response(origin, status, payload) ==
    [status |-> status, allowOrigin |-> CorsOrigin(origin), payload |-> payload]

InitOn(requests) ==
    /\ variant \in Variants
    /\ env \in (IF variant = "earliest" THEN {NoEnv} ELSE Envs)
    /\ pc = [r \in requests |-> "idle"]
    /\ req = [r \in requests |-> NoReq]
    /\ fetches = [r \in requests |-> <<>>]
    /\ upstream = [r \in requests |-> Pending]
    /\ resp = [r \in requests |-> <<>>]
    /\ logs = [r \in requests |-> <<>>]

Init == InitOn({1})

ConcInit ==
    /\ InitOn(1..NumReq)
    /\ env \in {NoEnv} \cup {e \in Envs : e.GITHUB_CLIENT_SECRET = "ghsecret_A"}

\* an OPTIONS request: answered by the CORS gate
Preflight(r, origin) ==
    /\ pc[r] = "idle"
    /\ req' = [req EXCEPT ![r] = [NoReq EXCEPT !.route = "OPTIONS", !.origin = origin]]
    /\ resp' = [resp EXCEPT ![r] = Append(@, Response(origin, 204, Empty))]
    /\ pc' = [pc EXCEPT ![r] = "done"]
    /\ UNCHANGED <<variant, env, fetches, upstream, logs>>

GetConfig(r, origin) ==
    /\ pc[r] = "idle"
    /\ req' = [req EXCEPT ![r] = [NoReq EXCEPT !.route = "GET /config", !.origin = origin]]
    /\ LET c == ConfigPayload(variant, env)
       IN resp' = [resp EXCEPT ![r] = Append(@, Response(origin, c.status, c.payload))]
    /\ pc' = [pc EXCEPT ![r] = "done"]
    /\ UNCHANGED <<variant, env, fetches, upstream, logs>>

GetHealth(r, origin) ==
    /\ pc[r] = "idle"
    /\ req' = [req EXCEPT ![r] = [NoReq EXCEPT !.route = "GET /", !.origin = origin]]
    /\ resp' = [resp EXCEPT ![r] = Append(@, Response(origin, 200, HealthPayload(variant)))]
    /\ pc' = [pc EXCEPT ![r] = "done"]
    /\ UNCHANGED <<variant, env, fetches, upstream, logs>>

\* POST /oauth up to the await of fetch
OAuthStart(r, origin, targetUrl, body) ==
    /\ pc[r] = "idle"
    /\ req' = [req EXCEPT ![r] = [ route |-> "POST /oauth", origin |-> origin,
                                   url |-> targetUrl, body |-> body,
                                   auth |-> Undefined ]]
    /\ IF ~OAuthAllowed(targetUrl)
       THEN /\ resp' = [resp EXCEPT ![r] = Append(@,
                          Response(origin, 400,
                                   Obj([error |-> "Invalid or unauthorized URL"])))]
            /\ pc' = [pc EXCEPT ![r] = "done"]
            /\ UNCHANGED <<fetches, logs>>
       ELSE LET p == OAuthPrepare(variant, env, targetUrl, body)
            IN /\ fetches' = [fetches EXCEPT ![r] = Append(@, p.fetch)]
               /\ logs' = [logs EXCEPT ![r] = @ \o p.logs]
               /\ pc' = [pc EXCEPT ![r] = "oauthAwait"]
               /\ UNCHANGED resp
    /\ UNCHANGED <<variant, env, upstream>>

OAuthFinishRetrying(r, outcome) ==
    /\ pc[r] = "oauthAwait"
    /\ IF outcome.threw /\ Len(fetches[r]) < 2
       THEN /\ fetches' = [fetches EXCEPT ![r] = Append(@, @[1])]
            /\ UNCHANGED <<resp, logs, pc, upstream>>
       ELSE LET c == OAuthComplete(variant, outcome)
            IN /\ resp' = [resp EXCEPT ![r] = Append(@,
                              Response(req[r].origin, c.status, c.payload))]
               /\ logs' = [logs EXCEPT ![r] = @ \o c.logs]
               /\ pc' = [pc EXCEPT ![r] = "done"]
               /\ upstream' = [upstream EXCEPT ![r] = outcome]
               /\ UNCHANGED fetches
    /\ UNCHANGED <<variant, env, req>>

\* POST /oauth from the completion of fetch (a response or an exception)
OAuthFinish(r, outcome) ==
    /\ pc[r] = "oauthAwait"
    /\ LET c == OAuthComplete(variant, outcome)
       IN /\ resp' = [resp EXCEPT ![r] = Append(@,
                         Response(req[r].origin, c.status, c.payload))]
          /\ logs' = [logs EXCEPT ![r] = @ \o c.logs]
    /\ upstream' = [upstream EXCEPT ![r] = outcome]
    /\ pc' = [pc EXCEPT ![r] = "done"]
    /\ UNCHANGED <<variant, env, req, fetches>>

\* GET /apis up to the await of fetch
ApisStart(r, origin, targetUrl, authHeader) ==
    /\ pc[r] = "idle"
    /\ req' = [req EXCEPT ![r] = [ route |-> "GET /apis", origin |-> origin,
                                   url |-> targetUrl, body |-> "",
                                   auth |-> authHeader ]]
    /\ IF targetUrl = Undefined \/ targetUrl = ""
       THEN /\ resp' = [resp EXCEPT ![r] = Append(@,
                          Response(origin, 400,
                                   Obj([error |-> "Missing url parameter"])))]
            /\ pc' = [pc EXCEPT ![r] = "done"]
            /\ UNCHANGED fetches
       ELSE IF ~ApisAllowed(targetUrl)
       THEN /\ resp' = [resp EXCEPT ![r] = Append(@,
                          Response(origin, 400,
                                   Obj([error |-> "Invalid or unauthorized URL"])))]
            /\ pc' = [pc EXCEPT ![r] = "done"]
            /\ UNCHANGED fetches
       ELSE /\ fetches' = [fetches EXCEPT ![r] =
                             Append(@, ApisPrepare(variant, targetUrl, authHeader))]
            /\ pc' = [pc EXCEPT ![r] = "apisAwait"]
            /\ UNCHANGED resp
    /\ UNCHANGED <<variant, env, upstream, logs>>

\* GET /apis from the completion of fetch
ApisFinish(r, outcome) ==
    /\ pc[r] = "apisAwait"
    /\ LET c == ApisComplete(variant, outcome)
       IN /\ resp' = [resp EXCEPT ![r] = Append(@,
                         Response(req[r].origin, c.status, c.payload))]
          /\ logs' = [logs EXCEPT ![r] = @ \o c.logs]
    /\ upstream' = [upstream EXCEPT ![r] = outcome]
    /\ pc' = [pc EXCEPT ![r] = "done"]
    /\ UNCHANGED <<variant, env, req, fetches>>

\* one request, any input (the guard on pc comes before the inputs are drawn)
Next ==
    \/ \E r \in DOMAIN pc, o \in OriginSamples : Preflight(r, o)
    \/ \E r \in DOMAIN pc, o \in RequestOrigins : GetConfig(r, o)
    \/ \E r \in DOMAIN pc, o \in RequestOrigins : GetHealth(r, o)
    \/ \E r \in DOMAIN pc :
          /\ pc[r] = "idle"
          /\ \E o \in RequestOrigins, u \in OAuthUrlSamples, b \in Bodies :
                OAuthStart(r, o, u, b)
    \/ \E r \in DOMAIN pc :
          /\ pc[r] = "oauthAwait"
          /\ \E x \in Outcomes : OAuthFinish(r, x)
    \/ \E r \in DOMAIN pc :
          /\ pc[r] = "idle"
          /\ \E o \in RequestOrigins, u \in ApiUrlSamples, a \in AuthSamples :
                ApisStart(r, o, u, a)
    \/ \E r \in DOMAIN pc :
          /\ pc[r] = "apisAwait"
          /\ \E x \in Outcomes : ApisFinish(r, x)

Spec == Init /\ [][Next]_vars

\* several requests in flight at once
ConcNext ==
    \/ \E r \in DOMAIN pc, u \in ConcOAuthUrls :
          OAuthStart(r, "https://app.abhi.now", u, "code=abc")
    \/ \E r \in DOMAIN pc, x \in ConcOutcomes : OAuthFinish(r, x)
    \/ \E r \in DOMAIN pc, u \in ConcApiUrls :
          ApisStart(r, "https://app.abhi.now", u, Undefined)
    \/ \E r \in DOMAIN pc, x \in ConcOutcomes : ApisFinish(r, x)

\* an awaited fetch settles: it resolves, or the runtime's own limits make it
\* reject
ConcFairness ==
    \A r \in 1..NumReq :
        /\ WF_vars(\E x \in ConcOutcomes : OAuthFinish(r, x))
        /\ WF_vars(\E x \in ConcOutcomes : ApisFinish(r, x))

ConcSpec == ConcInit /\ [][ConcNext]_vars /\ ConcFairness

-----------------------------------------------------------------------------
(* Properties *)

Requests == DOMAIN pc

\* request r has been answered with exactly this status
Answered(r, status) == Len(resp[r]) = 1 /\ resp[r][1].status = status

\* C1: a POST /oauth whose url is missing or is not exactly an entry of the
\* OAuth allow-list is answered 400 and issues no fetch; every fetch of
\* /oauth goes to an entry of the allow-list.
C1_OAuthFailsClosed ==
    \A r \in Requests :
        req[r].route = "POST /oauth" =>
            /\ (\A i \in 1..Len(ALLOWED_OAUTH_ENDPOINTS) :
                    req[r].url # ALLOWED_OAUTH_ENDPOINTS[i])
                  => (Answered(r, 400) /\ fetches[r] = <<>>)
            /\ \A k \in 1..Len(fetches[r]) :
                  \E i \in 1..Len(ALLOWED_OAUTH_ENDPOINTS) :
                      fetches[r][k].url = ALLOWED_OAUTH_ENDPOINTS[i]

\* a near miss of an allow-listed endpoint (one more character) was rejected
C1_Witness ==
    \E r \in Requests :
        /\ req[r].route = "POST /oauth"
        /\ req[r].url = GITHUB_TOKEN_URL \o "/"
        /\ Answered(r, 400)
        /\ fetches[r] = <<>>

\* C2: a GET /apis whose url is missing or starts with no entry of the API
\* allow-list is answered 400 and issues no fetch; every fetch of /apis goes
\* to a target that has an entry of the allow-list as a prefix.
C2_ApisFailsClosed ==
    \A r \in Requests :
        req[r].route = "GET /apis" =>
            /\ (\/ req[r].url = Undefined
                \/ \A i \in 1..Len(ALLOWED_API_ENDPOINTS) :
                      ~StartsWith(req[r].url, ALLOWED_API_ENDPOINTS[i]))
                  => (Answered(r, 400) /\ fetches[r] = <<>>)
            /\ \A k \in 1..Len(fetches[r]) :
                  \E i \in 1..Len(ALLOWED_API_ENDPOINTS) :
                      StartsWith(fetches[r][k].url, ALLOWED_API_ENDPOINTS[i])

\* a target that only contains an allow-listed prefix further on was rejected
C2_Witness ==
    \E r \in Requests :
        /\ req[r].route = "GET /apis"
        /\ req[r].url = "https://evil.example/?u=https://api.github.com/user"
        /\ Answered(r, 400)
        /\ fetches[r] = <<>>

\* the origins of OriginSamples that the gate is to echo, classified by hand
EchoedSamples ==
    { "https://app.abhi.now", "https://abhi.now", "https://g.abhi.now",
      "http://localhost:5173", "http://evil.abhi.now", ".abhi.now" }

\* C5: the response to GET /config holds the two client IDs and nothing
\* else: no field named after a secret, no value other than the IDs, and the
\* same response under every configuration that differs only in the secrets.
C5_ConfigHidesSecrets ==
    \A r \in Requests :
        (req[r].route = "GET /config" /\ pc[r] = "done") =>
            LET p == resp[r][1].payload IN
            /\ Len(resp[r]) = 1
            /\ \A k \in DOMAIN p.fields :
                  /\ ~Includes(k, "ecret")
                  /\ p.fields[k] \in {env.GITHUB_CLIENT_ID, env.GITLAB_CLIENT_ID}
            /\ variant # "earliest" =>
                  /\ DOMAIN p.fields = {"github.clientId", "gitlab.clientId"}
                  /\ p.fields["github.clientId"] = env.GITHUB_CLIENT_ID
                  /\ p.fields["gitlab.clientId"] = env.GITLAB_CLIENT_ID
                  /\ \A e \in AllEnvs :
                        (/\ e.GITHUB_CLIENT_ID = env.GITHUB_CLIENT_ID
                         /\ e.GITLAB_CLIENT_ID = env.GITLAB_CLIENT_ID)
                           => /\ ConfigPayload(variant, e).payload = p
                              /\ ConfigPayload(variant, e).status = resp[r][1].status

\* /config was served by a deployment that holds secrets
C5_Witness ==
    \E r \in Requests :
        /\ req[r].route = "GET /config"
        /\ pc[r] = "done"
        /\ variant = "latest"
        /\ env.GITHUB_CLIENT_SECRET = "ghsecret_B"
        /\ resp[r][1].status = 200

\* C6: the allowed origin of every response is the request's Origin when it
\* ends with ".abhi.now", is "https://abhi.now" or starts with
\* "http://localhost:", and "https://g.abhi.now" otherwise; the sampled
\* origins come out as classified by hand.
C6_CorsOrigin ==
    \A r \in Requests :
        \A k \in 1..Len(resp[r]) :
            LET o == req[r].origin
                n == Len(o)
                allowed == resp[r][k].allowOrigin
            IN /\ allowed =
                    IF \/ (n >= 9 /\ SubSeq(o, n - 8, n) = ".abhi.now")
                       \/ o = "https://abhi.now"
                       \/ (n >= 17 /\ SubSeq(o, 1, 17) = "http://localhost:")
                    THEN o
                    ELSE "https://g.abhi.now"
               /\ o \in OriginSamples =>
                    allowed = IF o \in EchoedSamples THEN o ELSE "https://g.abhi.now"

\* an origin that holds ".abhi.now" in the middle was sent to an OPTIONS
\* request and got the fallback
C6_Witness ==
    \E r \in Requests :
        /\ req[r].route = "OPTIONS"
        /\ req[r].origin = "https://x.abhi.now.evil.example"
        /\ Len(resp[r]) = 1
        /\ resp[r][1].allowOrigin = "https://g.abhi.now"

\* the pairs of a form other than the two credential fields, in order
OtherFields(params) ==
    SelectSeq(params, LAMBDA q : q.name \notin {"client_id", "client_secret"})

\* the values a form carries under a name, in order
ValuesOf(params, name) ==
    LET hits == SelectSeq(params, LAMBDA q : q.name = name)
    IN [i \in 1..Len(hits) |-> hits[i].value]

\* the body of fetch f, read as the upstream reads it, carries exactly one
\* client_id and one client_secret, those given, and the other fields of
\* the caller's form (as URLSearchParams reads it) unchanged
InjectsExactly(f, callerBody, id, secret) ==
    LET sent == FormParse(f.body) IN
    /\ ValuesOf(sent, "client_id") = <<id>>
    /\ ValuesOf(sent, "client_secret") = <<secret>>
    /\ OtherFields(sent) = OtherFields(URLSearchParams(callerBody))

\* the credential pair of the provider behind an OAuth endpoint
InjectionHolds(r, k) ==
    /\ fetches[r][k].url = GITHUB_TOKEN_URL =>
          InjectsExactly(fetches[r][k], req[r].body,
                         env.GITHUB_CLIENT_ID, env.GITHUB_CLIENT_SECRET)
    /\ fetches[r][k].url = GITLAB_TOKEN_URL =>
          InjectsExactly(fetches[r][k], req[r].body,
                         env.GITLAB_CLIENT_ID, env.GITLAB_CLIENT_SECRET)

\* C3 (as stated): whatever the variant, the body /oauth forwards to the
\* GitHub (GitLab) token endpoint carries exactly one client_id and one
\* client_secret, the configured ones, and the caller's other fields
\* unchanged.
C3_Original ==
    \A r \in Requests :
        req[r].route = "POST /oauth" =>
            \A k \in 1..Len(fetches[r]) : InjectionHolds(r, k)

\* C3 (amended): the same of the variants that hold credentials (secrets,
\* latest), the caller's form being read as URLSearchParams reads it; the
\* earliest variant forwards the body as received.
C3_CredentialInjection ==
    \A r \in Requests :
        req[r].route = "POST /oauth" =>
            \A k \in 1..Len(fetches[r]) :
                /\ variant # "earliest" => InjectionHolds(r, k)
                /\ variant = "earliest" => fetches[r][k].body = req[r].body

\* a caller that supplied both credential fields was forwarded to GitHub
C3_Witness ==
    \E r \in Requests :
        /\ variant = "latest"
        /\ req[r].route = "POST /oauth"
        /\ req[r].url = GITHUB_TOKEN_URL
        /\ req[r].body = "client_secret=evil%26x&client_id=evil"
        /\ Len(fetches[r]) = 1

\* every secret value of the model's configurations
AllSecretValues ==
    {e.GITHUB_CLIENT_SECRET : e \in AllEnvs} \cup {e.GITLAB_CLIENT_SECRET : e \in AllEnvs}

\* the strings that come into the relay from outside: what a caller sends
\* and what an upstream answers
InputStrings ==
    UNION { {x, Substring(x, LOG_EXCERPT), Substring(x, DETAILS_EXCERPT)} : x \in Texts }
    \cup {JsonDocs[x].canon : x \in DOMAIN JsonDocs}
    \cup UNION { {JsonDocs[x].fields[k] : k \in DOMAIN JsonDocs[x].fields} :
                 x \in DOMAIN JsonDocs }
    \cup OAuthUrlSamples \cup ApiUrlSamples \cup AuthSamples \cup Bodies

\* those of them that hold no secret value (searched once, so that a state
\* is searched only for the strings the relay itself builds)
CleanStrings ==
    {s \in InputStrings : \A sec \in AllSecretValues : ~Includes(s, sec)}

\* string s holds secret value sec
Holds(s, sec) == s \notin CleanStrings /\ Includes(s, sec)

\* string s holds none of the deployment's secrets
NoSecretIn(s) == \A sec \in Secrets(variant, env) : ~Holds(s, sec)

\* the strings of a payload
PayloadStrings(p) == {p.canon} \cup {p.fields[k] : k \in DOMAIN p.fields}

\* C4: on every path of /oauth and /apis no response payload and no log
\* line holds a configured client secret.
C4_NoSecretInOutput ==
    \A r \in Requests :
        /\ \A k \in 1..Len(resp[r]) :
              \A s \in PayloadStrings(resp[r][k].payload) : NoSecretIn(s)
        /\ \A k \in 1..Len(logs[r]) :
              \A j \in 1..Len(logs[r][k].args) : NoSecretIn(logs[r][k].args[j])

\* the secret went upstream and the forward then failed: the catch block
\* logged and answered 500
C4_Witness ==
    \E r \in Requests :
        /\ variant = "latest"
        /\ req[r].route = "POST /oauth"
        /\ Len(fetches[r]) = 1
        /\ Includes(fetches[r][1].body, env.GITHUB_CLIENT_SECRET)
        /\ upstream[r].threw
        /\ Answered(r, 500)
        /\ Len(logs[r]) = 2

\* the strings of an outbound request
FetchStrings(f) == {f.url, f.body} \cup {f.headers[h] : h \in DOMAIN f.headers}

\* fetch f of a request on route, under configuration e, holds a provider's
\* secret only when it goes to that provider's token endpoint from /oauth
SecretStaysHome(e, route, f) ==
    /\ (\E s \in FetchStrings(f) : Holds(s, e.GITHUB_CLIENT_SECRET))
          => (route = "POST /oauth" /\ f.url = GITHUB_TOKEN_URL)
    /\ (\E s \in FetchStrings(f) : Holds(s, e.GITLAB_CLIENT_SECRET))
          => (route = "POST /oauth" /\ f.url = GITLAB_TOKEN_URL)

\* C10: a fetch holds the GitHub secret only if it goes to GitHub's token
\* endpoint from /oauth and the GitLab secret only if it goes to GitLab's;
\* so no secret goes to Bitbucket or out of /apis.
C10_SecretOnlyToOwnProvider ==
    \A r \in Requests :
        \A k \in 1..Len(fetches[r]) :
            /\ variant # "earliest" =>
                  SecretStaysHome(env, req[r].route, fetches[r][k])
            /\ variant = "earliest" =>
                  \A s \in FetchStrings(fetches[r][k]) :
                      \A sec \in AllSecretValues : ~Holds(s, sec)

\* a forward to Bitbucket and no secret in it, under a deployment with secrets
C10_Witness ==
    \E r \in Requests :
        /\ variant = "secrets"
        /\ req[r].route = "POST /oauth"
        /\ Len(fetches[r]) = 1
        /\ fetches[r][1].url = BITBUCKET_TOKEN_URL
        /\ ~Includes(fetches[r][1].body, env.GITHUB_CLIENT_SECRET)
        /\ ~Includes(fetches[r][1].body, env.GITLAB_CLIENT_SECRET)

\* request r is a GET /apis whose fetch has settled with a response
ApisSettled(r) ==
    /\ req[r].route = "GET /apis"
    /\ pc[r] = "done"
    /\ Len(fetches[r]) = 1
    /\ ~upstream[r].threw

IsJsonType(contentType) ==
    contentType # Undefined /\ Includes(contentType, "application/json")

\* the upstream answer is not declared JSON, or its body is no JSON document
NotJson(x) == ~IsJsonType(x.contentType) \/ x.text \notin DOMAIN JsonDocs

\* C7 (as stated): whatever the variant, when the upstream answer of an
\* allow-listed GET /apis is not declared JSON or does not parse, the
\* handler answers 500 and `details` is a prefix of the raw body of at most
\* 500 characters, never the whole of a longer body.
C7_Original ==
    \A r \in Requests :
        (ApisSettled(r) /\ NotJson(upstream[r])) =>
            /\ Answered(r, 500)
            /\ "details" \in DOMAIN resp[r][1].payload.fields
            /\ LET d == resp[r][1].payload.fields["details"]
                   text == upstream[r].text
               IN /\ Len(d) <= 500
                  /\ Len(d) <= Len(text)
                  /\ d = SubSeq(text, 1, Len(d))
                  /\ Len(text) > 500 => d # text

\* C7 (amended): in the latest variant, the answer is 500 and `details` is
\* the first min(500, length) characters of the raw body.
C7_ExcerptCapped ==
    \A r \in Requests :
        (variant = "latest" /\ ApisSettled(r) /\ NotJson(upstream[r])) =>
            /\ Answered(r, 500)
            /\ "details" \in DOMAIN resp[r][1].payload.fields
            /\ LET d == resp[r][1].payload.fields["details"]
                   text == upstream[r].text
               IN /\ Len(d) = (IF Len(text) < 500 THEN Len(text) ELSE 500)
                  /\ d = SubSeq(text, 1, Len(d))
                  /\ Len(text) > 500 => d # text

\* an HTML page longer than the cap came back and 500 of its characters
\* were returned
C7_Witness ==
    \E r \in Requests :
        /\ variant = "latest"
        /\ ApisSettled(r)
        /\ upstream[r].text = T_HTML
        /\ upstream[r].contentType = "text/html"
        /\ Answered(r, 500)
        /\ Len(resp[r][1].payload.fields["details"]) = 500
        /\ Len(upstream[r].text) > 500

\* the upstream answer is declared JSON, parses, and has a failure status
JsonFailure(x) ==
    /\ IsJsonType(x.contentType)
    /\ x.text \in DOMAIN JsonDocs
    /\ ~(200 <= x.status /\ x.status <= 299)

\* the message of a parsed body, or its JSON text when it has none
MessageOrText(data) ==
    IF "message" \in DOMAIN data.fields /\ data.fields["message"] # ""
    THEN data.fields["message"]
    ELSE data.canon

\* C8 (as stated): for an upstream JSON answer with a failure status the
\* handler answers with the upstream status and an `error` field taken from
\* the body's message, or from the stringified body.
C8_Original ==
    \A r \in Requests :
        (ApisSettled(r) /\ JsonFailure(upstream[r])) =>
            /\ Answered(r, upstream[r].status)
            /\ "error" \in DOMAIN resp[r][1].payload.fields
            /\ resp[r][1].payload.fields["error"]
                  = MessageOrText(JsonDocs[upstream[r].text])

\* C8 (amended): the latest variant answers with the upstream status, the
\* fixed `error` "API request failed", and a `details` field taken from the
\* body's message when it has a non-empty one and from the stringified body
\* otherwise; a body of null makes it answer 500 from the catch block.  The
\* earlier variants relay the parsed body with the upstream status.
C8_UpstreamFailureSurfaced ==
    \A r \in Requests :
        (ApisSettled(r) /\ JsonFailure(upstream[r])) =>
            LET data == JsonDocs[upstream[r].text]
                p == resp[r][1].payload
            IN IF variant # "latest"
               THEN Answered(r, upstream[r].status) /\ p = data
               ELSE IF data.kind = "null"
               THEN /\ Answered(r, 500)
                    /\ p.fields = [error |-> "API request failed",
                                   details |-> TYPE_ERROR]
               ELSE /\ Answered(r, upstream[r].status)
                    /\ p.fields = [ error |-> "API request failed",
                                    details |-> MessageOrText(data),
                                    status |-> ToString(upstream[r].status) ]

\* GitHub answered 404 {"message":"Not Found"} and the message was surfaced
C8_Witness ==
    \E r \in Requests :
        /\ variant = "latest"
        /\ ApisSettled(r)
        /\ upstream[r].text = T_NOT_FOUND
        /\ upstream[r].status = 404
        /\ IsJsonType(upstream[r].contentType)
        /\ Answered(r, 404)
        /\ resp[r][1].payload.fields["details"] = "Not Found"

\* C9: a request issues at most one fetch and gets at most one response; a
\* settled fetch has exactly one fetch and one response behind it, an error
\* response when the forward failed; nothing is issued or answered again
\* afterwards; a step of one request leaves every other request as it was;
\* and every request received is eventually answered.
C9_OneForwardOneResponse ==
    /\ [](\A r \in 1..NumReq :
            /\ Len(fetches[r]) <= 1
            /\ Len(resp[r]) <= 1
            /\ pc[r] = "done" => Len(resp[r]) = 1
            /\ upstream[r] # Pending =>
                  /\ Len(fetches[r]) = 1
                  /\ Len(resp[r]) = 1
                  /\ upstream[r].threw => resp[r][1].status = 500
                  /\ (~upstream[r].threw /\ upstream[r].status >= 400)
                        => resp[r][1].status >= 400)
    /\ [][\A r \in 1..NumReq :
            /\ Len(resp[r]) = 1 => (resp'[r] = resp[r] /\ fetches'[r] = fetches[r])
            /\ pc'[r] # pc[r] =>
                  \A q \in 1..NumReq \ {r} :
                      /\ pc'[q] = pc[q] /\ req'[q] = req[q]
                      /\ fetches'[q] = fetches[q] /\ upstream'[q] = upstream[q]
                      /\ resp'[q] = resp[q] /\ logs'[q] = logs[q]]_vars
    /\ \A r \in 1..NumReq : (pc[r] # "idle") ~> (Len(resp[r]) = 1)

\* one request's forward threw and was answered 500 once while another
\* request was still awaiting its own fetch
C9_Witness ==
    \E r \in Requests, q \in Requests :
        /\ r # q
        /\ upstream[r].threw
        /\ Len(fetches[r]) = 1
        /\ Answered(r, 500)
        /\ pc[q] \in {"oauthAwait", "apisAwait"}

=============================================================================
